---- MODULE Spec2Model ----
(***************************************************************************)
(* Semantic analysis of rust_hdl: overload resolution                      *)
(* (vhdl_lang/src/analysis/overloaded.rs) and the sequential statement     *)
(* analyser (vhdl_lang/src/analysis/sequential.rs).                        *)
(*                                                                         *)
(* One call of resolve_overloaded_with_target_type is a run of Spec: Init  *)
(* draws the arguments of the call, every iteration of the candidate loop  *)
(* is one step, and the if/else chain after the loop is the last step.     *)
(***************************************************************************)
EXTENDS Integers, Sequences, FiniteSets, TLC

VARIABLES
    overloaded,     \* the candidates, in the order entities() yields them
    target_type,    \* Option<&TypeEnt>: a type, or NoType for None
    parameters,     \* ParametersMut: the shape and the actuals with their references
    reference,      \* the call-site Reference slot
    diagnostics,    \* the diagnostic sink handed to the call
    good,           \* Vec of candidates classified Ok
    bad,            \* Vec of candidates classified NotOk
    uncertain,      \* some candidate was classified Unknown
    idx,            \* position of the candidate loop in overloaded
    pc,             \* "loop" | "done"
    result,         \* the FatalResult<TypeCheck> returned: Ok, NotOk, Unknown, Fatal
    klass,          \* history: what the loop did with each candidate
    refWrites,      \* history: number of set_unique_reference calls on reference
    refOnEntry,     \* history: the value of reference when the call started
    realPasses,     \* history: the non-speculative parameter analyses, in order
    statements,     \* the sequential statements, in the order the analysis meets them
    owner,          \* what the sequential part is the body of
    sroot,          \* the SequentialRoot of the sequential part
    scope,          \* the region the sequential part is analysed in: name -> kind
    spos,           \* position of the analysis in statements
    checked,        \* history: the expression analyses made, in order
    prepass,        \* define_labels_for_sequential_part runs before the main pass
    seen,           \* history: the scope lookups made, in order
    instance,       \* the InstantiationStatement under analysis
    mapsAnalysed,   \* history: the generic and port map analyses made, in order
    cstatements,    \* the concurrent statements, in the order the analysis meets them
    cpos,           \* position of the analysis in cstatements
    scopes,         \* the chain of nested scopes, outermost first
    entities,       \* FormalRegion.entities
    added,          \* history: the arguments of FormalRegion::add, in order
    flagged,        \* history: number of debug assertions of FormalRegion::add that failed
    debug,          \* the build has debug assertions enabled
    answer          \* what the last query of the FormalRegion returned

\* The variables of the sequential statement analysis
seqVars == <<statements, owner, sroot, scope, spos, checked, prepass>>

\* The variables of one overload resolution
callVars == <<overloaded, target_type, parameters, reference, good, bad, uncertain,
              idx, klass, refWrites, refOnEntry, realPasses>>

\* The variables of the concurrent statement analysis
concVars == <<instance, mapsAnalysed, cstatements, cpos, scopes>>

\* The variables of a FormalRegion
regionVars == <<entities, added, flagged, debug, answer>>

vars == <<overloaded, target_type, parameters, reference, diagnostics, good, bad,
          uncertain, idx, pc, result, klass, refWrites, refOnEntry, realPasses,
          statements, owner, sroot, scope, spos, checked, prepass, seen,
          instance, mapsAnalysed, cstatements, cpos, scopes,
          entities, added, flagged, debug, answer>>

-----------------------------------------------------------------------------
(* Bounds *)

MaxCands == 3       \* candidates of one overloaded name
MaxActuals == 2     \* actuals of an association list
MaxStmts == 3       \* statements of a sequential part, nested ones included
MaxDepth == 2       \* nesting of if and loop statements
MaxConc == 3        \* statements of a concurrent part, nested ones included
MaxNest == 2        \* nesting of block and generate statements
MaxAdds == 3        \* calls of FormalRegion::add on one region

-----------------------------------------------------------------------------
(* Types, declarations and expressions the call is made over *)

Types == {"integer", "boolean", "time"}
NoType == "none"        \* Option::None of a type
NoRef == "unresolved"   \* a Reference that is not set
NoRegion == <<"no formal region">>

\* The subprogram declarations that share the designator: the return type
\* (NoType for a procedure) and the types of the formals.
DeclTable == <<
    [id |-> "f_ii_b", ret |-> "boolean", formals |-> <<"integer", "integer">>],
    [id |-> "f_ii_i", ret |-> "integer", formals |-> <<"integer", "integer">>],
    [id |-> "f_i_b",  ret |-> "boolean", formals |-> <<"integer">>],
    [id |-> "f_t_b",  ret |-> "boolean", formals |-> <<"time">>],
    [id |-> "f_b_b",  ret |-> "boolean", formals |-> <<"boolean">>],
    [id |-> "g_i",    ret |-> "integer", formals |-> <<>>],
    [id |-> "g_b",    ret |-> "boolean", formals |-> <<>>],
    [id |-> "p",      ret |-> NoType,    formals |-> <<>>] >>

Decls == {DeclTable[i] : i \in DOMAIN DeclTable}
DeclIds == {d.id : d \in Decls}
Decl(id) == CHOOSE d \in Decls : d.id = id

\* The forms of an actual:
\*   x        the name of an integer object (it types as the literal 1 does)
\*   flag     the name of a boolean object (in conditions)
\*   missing  a name that is not declared
\*   call     a call h(..) of an overloaded function that is unique for the
\*            targets integer and time and ambiguous for the target boolean
\*   fatal    an expression whose analysis raises a fatal error
ActualKinds == {"x", "missing", "call", "fatal"}

\* analyze_expression_with_target_type: the tri-state match of an actual
\* against the type of a formal.
ExprCheck(kind, t) ==
    CASE kind = "x"       -> IF t = "integer" THEN "Ok" ELSE "NotOk"
      [] kind = "flag"    -> IF t = "boolean" THEN "Ok" ELSE "NotOk"
      [] kind = "missing" -> "Unknown"
      [] kind = "call"    -> IF t = "boolean" THEN "Unknown" ELSE "Ok"
      [] OTHER            -> "Unknown"

\* The declaration the analysis of an actual binds its name reference to;
\* t is NoType when the expression is analysed without a target type.
ExprRef(kind, t) ==
    CASE kind = "x"    -> "x"
      [] kind = "flag" -> "flag"
      [] kind = "call" -> IF t \in {"integer", "time"} THEN "h_" \o t ELSE NoRef
      [] OTHER         -> NoRef

\* Whether the analysis of an actual reports a diagnostic to its handler.
ExprDiag(kind, t) ==
    IF t = NoType THEN kind \in {"missing", "call"}
    ELSE ExprCheck(kind, t) # "Ok"

ExprFatal(kind) == kind = "fatal"

\* TypeCheck::add
Add(a, b) ==
    IF a = "Unknown" \/ b = "Unknown" THEN "Unknown"
    ELSE IF a = "NotOk" \/ b = "NotOk" THEN "NotOk"
    ELSE "Ok"

Diag(kind, cands, at) == [kind |-> kind, cands |-> cands, at |-> at]

-----------------------------------------------------------------------------
(* Candidate attributes *)

IsFunction(name) == name.ret # NoType

\* Signature::match_return_type
MatchReturnType(name, ttyp) == name.ret = ttyp

\* FormalRegion::nth, index counted from 0; NoType stands for None
Nth(formal_region, n) ==
    IF n + 1 <= Len(formal_region) THEN formal_region[n + 1] ELSE NoType

-----------------------------------------------------------------------------
(* ParametersMut *)

Unbound(e) == [e EXCEPT !.ref = NoRef]

\* clear_references that clears nothing
ClearReferencesKeeps(p) == p

ClearReferences(p) ==
    [p EXCEPT !.elems = [i \in DOMAIN p.elems |-> Unbound(p.elems[i])]]

\* is_empty that only looks at the shape
IsEmptyIgnoresLength(p) == p.shape = "assoc"

IsEmpty(p) == p.shape = "assoc" /\ Len(p.elems) = 0

\* operator_len that counts the actuals of an association list as well
OperatorLenCountsActuals(p) == Len(p.elems)

\* Option<usize>: -1 stands for None
OperatorLen(p) ==
    CASE p.shape = "assoc"  -> -1
      [] p.shape = "unary"  -> 1
      [] p.shape = "binary" -> 2

-----------------------------------------------------------------------------
(* Parameter analysis.  A pass is a record: the combined check, the        *)
(* parameters with the references the pass set, the diagnostics it handed  *)
(* to its handler, and whether it ended in a fatal error.                  *)

\* set_unique_reference on the name of an actual: the slot is written when
\* the name resolves and left as it is when it does not.
SetReference(e, r) == IF r # NoRef THEN [e EXCEPT !.ref = r] ELSE e

StartPass(p) == [check |-> "Ok", params |-> p, diags |-> <<>>, fatal |-> FALSE]

\* One actual against formal_region.nth(i - 1): with the formal's type as
\* target when there is such a formal, else without target and NotOk.
\* A fatal error ends the pass where it is raised.
AnalyzeActual(formal_region, acc, i) ==
    LET a == acc.params.elems[i]
        t == Nth(formal_region, i - 1)
    IN  IF acc.fatal THEN acc
        ELSE IF ExprFatal(a.kind) THEN [acc EXCEPT !.fatal = TRUE]
        ELSE [check  |-> Add(acc.check,
                             IF t # NoType THEN ExprCheck(a.kind, t) ELSE "NotOk"),
              params |-> [acc.params EXCEPT !.elems[i] = SetReference(a, ExprRef(a.kind, t))],
              diags  |-> IF ExprDiag(a.kind, t)
                         THEN Append(acc.diags, Diag("param", <<>>, i))
                         ELSE acc.diags,
              fatal  |-> FALSE]

\* analyze_expression_pos on one actual
AnalyzeExpressionPos(acc, i) ==
    LET a == acc.params.elems[i]
    IN  IF acc.fatal THEN acc
        ELSE IF ExprFatal(a.kind) THEN [acc EXCEPT !.fatal = TRUE]
        ELSE [acc EXCEPT
                !.params.elems[i] = SetReference(a, ExprRef(a.kind, NoType)),
                !.diags = IF ExprDiag(a.kind, NoType)
                          THEN Append(acc.diags, Diag("param", <<>>, i))
                          ELSE acc.diags]

RECURSIVE AssocWithRegionFrom(_, _, _)
AssocWithRegionFrom(formal_region, acc, i) ==
    IF i > Len(acc.params.elems) THEN acc
    ELSE AssocWithRegionFrom(formal_region, AnalyzeActual(formal_region, acc, i), i + 1)

\* analyze_assoc_elems_with_formal_region: positional association; a formal
\* left without an actual is a mismatch.
AnalyzeAssocElemsWithFormalRegion(formal_region, p) ==
    LET r == AssocWithRegionFrom(formal_region, StartPass(p), 1)
    IN  IF ~r.fatal /\ Len(p.elems) < Len(formal_region)
        THEN [r EXCEPT !.check = Add(r.check, "NotOk"),
                       !.diags = Append(r.diags, Diag("param", <<>>, 0))]
        ELSE r

RECURSIVE AssocFrom(_, _)
AssocFrom(acc, i) ==
    IF i > Len(acc.params.elems) THEN acc
    ELSE AssocFrom(AnalyzeExpressionPos(acc, i), i + 1)

\* analyze_assoc_elems
AnalyzeAssocElems(p) == AssocFrom(StartPass(p), 1)

AnalyzeParametersWithFormalRegion(formal_region, p) ==
    CASE p.shape = "assoc"  -> AnalyzeAssocElemsWithFormalRegion(formal_region, p)
      [] p.shape = "binary" ->
            AnalyzeActual(formal_region, AnalyzeActual(formal_region, StartPass(p), 1), 2)
      [] p.shape = "unary"  -> AnalyzeActual(formal_region, StartPass(p), 1)

AnalyzeParameters(p) ==
    CASE p.shape = "assoc"  -> AnalyzeAssocElems(p)
      [] p.shape = "binary" -> AnalyzeExpressionPos(AnalyzeExpressionPos(StartPass(p), 1), 2)
      [] p.shape = "unary"  -> AnalyzeExpressionPos(StartPass(p), 1)

-----------------------------------------------------------------------------
(* The arguments of a call *)

SeqsUpTo(S, n) == UNION {[1..k -> S] : k \in 0..n}

Distinct(s) == \A i, j \in DOMAIN s : i # j => s[i] # s[j]

OverloadedNames == {s \in SeqsUpTo(DeclIds, MaxCands) : Distinct(s)}

ActualLists(n) == {[i \in 1..n |-> [kind |-> k[i], ref |-> NoRef]] : k \in [1..n -> ActualKinds]}

ParameterSets ==
    {[shape |-> "assoc", elems |-> e] : e \in UNION {ActualLists(n) : n \in 0..MaxActuals}}
    \cup {[shape |-> "unary", elems |-> e] : e \in ActualLists(1)}
    \cup {[shape |-> "binary", elems |-> e] : e \in ActualLists(2)}

TargetTypes == {NoType, "boolean", "time"}

\* No sequential part is under analysis.
NoStatements ==
    /\ statements = <<>>
    /\ owner = "None"
    /\ sroot = [kind |-> "Unknown", typ |-> NoType]
    /\ scope = <<>>
    /\ spos = 1
    /\ checked = <<>>
    /\ prepass = FALSE

\* No concurrent statement is under analysis.
NoConcurrent ==
    /\ instance = <<>>
    /\ mapsAnalysed = <<>>
    /\ cstatements = <<>>
    /\ cpos = 1
    /\ scopes = <<>>

\* No FormalRegion is in use.
NoFormalRegion ==
    /\ entities = <<>>
    /\ added = <<>>
    /\ flagged = 0
    /\ debug = FALSE
    /\ answer = [op |-> "none"]

\* No overload resolution is under way.
NoCall ==
    /\ overloaded = <<>>
    /\ target_type = NoType
    /\ parameters = [shape |-> "assoc", elems |-> <<>>]
    /\ reference = NoRef
    /\ refOnEntry = NoRef
    /\ good = <<>>
    /\ bad = <<>>
    /\ uncertain = FALSE
    /\ idx = 1
    /\ klass = <<>>
    /\ refWrites = 0
    /\ realPasses = <<>>

Init ==
    /\ NoStatements
    /\ NoConcurrent
    /\ NoFormalRegion
    /\ seen = <<>>
    /\ overloaded \in OverloadedNames
    /\ target_type \in TargetTypes
    /\ parameters \in ParameterSets
    /\ reference = NoRef
    /\ refOnEntry = reference
    /\ diagnostics = <<>>
    /\ good = <<>>
    /\ bad = <<>>
    /\ uncertain = FALSE
    /\ idx = 1
    /\ pc = "loop"
    /\ result = "none"
    /\ klass = [i \in DOMAIN overloaded |-> "pending"]
    /\ refWrites = 0
    /\ realPasses = <<>>

-----------------------------------------------------------------------------
(* The candidate loop *)

\* The two `continue`s at the head of the loop body
Filtered(name, ttyp, p) ==
    \/ IsFunction(name) # (ttyp # NoType)
    \/ OperatorLen(p) # -1 /\ Len(name.formals) # OperatorLen(p)

\* The speculative pass of one candidate (diagnostics go to NullDiagnostics)
Speculate(name, ttyp, p) ==
    IF MatchReturnType(name, ttyp)
    THEN AnalyzeParametersWithFormalRegion(name.formals, p)
    ELSE [StartPass(p) EXCEPT !.check = "NotOk"]

\* a NullDiagnostics that hands the diagnostics on
NullDiagnosticsForwards(diags) == diags

\* NullDiagnostics, the handler of a speculative pass: what it is given is
\* dropped.
NullDiagnostics(diags) == <<>>

FilterCandidate ==
    /\ pc = "loop"
    /\ idx <= Len(overloaded)
    /\ Filtered(Decl(overloaded[idx]), target_type, parameters)
    /\ klass' = [klass EXCEPT ![idx] = "skipped"]
    /\ idx' = idx + 1
    /\ UNCHANGED <<overloaded, target_type, parameters, reference, diagnostics, good,
                   bad, uncertain, pc, result, refWrites, refOnEntry, realPasses>>
    /\ UNCHANGED seqVars
    /\ UNCHANGED <<concVars, regionVars, seen>>

ClassifyCandidate ==
    /\ pc = "loop"
    /\ idx <= Len(overloaded)
    /\ ~Filtered(Decl(overloaded[idx]), target_type, parameters)
    /\ LET name == Decl(overloaded[idx])
           is_correct == Speculate(name, target_type, parameters)
       IN  /\ IF is_correct.fatal
              THEN \* the `?` returns before clear_references
                   /\ parameters' = is_correct.params
                   /\ pc' = "done"
                   /\ result' = "Fatal"
                   /\ klass' = [klass EXCEPT ![idx] = "Fatal"]
                   /\ UNCHANGED <<good, bad, uncertain, idx>>
              ELSE /\ parameters' = ClearReferences(is_correct.params)
                   /\ good' = IF is_correct.check = "Ok" THEN Append(good, name.id) ELSE good
                   /\ bad' = IF is_correct.check = "NotOk" THEN Append(bad, name.id) ELSE bad
                   /\ uncertain' = (uncertain \/ is_correct.check = "Unknown")
                   /\ klass' = [klass EXCEPT ![idx] = is_correct.check]
                   /\ idx' = idx + 1
                   /\ UNCHANGED <<pc, result>>
           /\ diagnostics' = diagnostics \o NullDiagnostics(is_correct.diags)
    /\ UNCHANGED <<overloaded, target_type, reference, refWrites, refOnEntry, realPasses>>
    /\ UNCHANGED seqVars
    /\ UNCHANGED <<concVars, regionVars, seen>>

-----------------------------------------------------------------------------
(* After the loop *)

\* a loop that is left at the first candidate classified Ok
LoopDoneAtFirstMatch == pc = "loop" /\ (idx > Len(overloaded) \/ Len(good) = 1)

LoopDone == pc = "loop" /\ idx > Len(overloaded)

\* a concluding pass that runs before the call's own diagnostic is pushed
ConcludeBeforeOwn(pass, region, own, ret) ==
    /\ parameters' = pass.params
    /\ diagnostics' = diagnostics \o pass.diags \o own
    /\ realPasses' = Append(realPasses, region)
    /\ result' = IF pass.fatal THEN "Fatal" ELSE ret
    /\ pc' = "done"

\* A non-speculative pass: its diagnostics reach the sink, its references
\* stay, a fatal error is returned with `?`, else the call returns ret.
Conclude(pass, region, own, ret) ==
    /\ parameters' = pass.params
    /\ diagnostics' = diagnostics \o own \o pass.diags
    /\ realPasses' = Append(realPasses, region)
    /\ result' = IF pass.fatal THEN "Fatal" ELSE ret
    /\ pc' = "done"

\* Diagnostic::add_subprogram_candidates
AddSubprogramCandidates(kind, cands) == Diag(kind, cands, 0)

\* the ambiguous branch binding the first of the matches
AmbiguousBindsFirst ==
    /\ LoopDone
    /\ Len(good) > 1
    /\ reference' = good[1]
    /\ refWrites' = refWrites + 1
    /\ Conclude(AnalyzeParameters(parameters), NoRegion,
                <<AddSubprogramCandidates("Ambiguous use", good)>>, "Unknown")
    /\ UNCHANGED <<overloaded, target_type, good, bad, uncertain, idx, klass, refOnEntry>>
    /\ UNCHANGED seqVars
    /\ UNCHANGED <<concVars, regionVars, seen>>

Ambiguous ==
    /\ LoopDone
    /\ Len(good) > 1
    /\ Conclude(AnalyzeParameters(parameters), NoRegion,
                <<AddSubprogramCandidates("Ambiguous use", good)>>, "Unknown")
    /\ UNCHANGED <<overloaded, target_type, reference, good, bad, uncertain, idx,
                   klass, refWrites, refOnEntry>>
    /\ UNCHANGED seqVars
    /\ UNCHANGED <<concVars, regionVars, seen>>

\* the uncertain branch missing: the chain falls through to the last else
UncertainReported ==
    /\ LoopDone
    /\ ~(Len(good) > 1)
    /\ uncertain
    /\ Conclude(AnalyzeParameters(parameters), NoRegion,
                <<AddSubprogramCandidates("Could not resolve", bad)>>, "NotOk")
    /\ UNCHANGED <<overloaded, target_type, reference, good, bad, uncertain, idx,
                   klass, refWrites, refOnEntry>>
    /\ UNCHANGED seqVars
    /\ UNCHANGED <<concVars, regionVars, seen>>

Uncertain ==
    /\ LoopDone
    /\ ~(Len(good) > 1)
    /\ uncertain
    /\ Conclude(AnalyzeParameters(parameters), NoRegion, <<>>, "Unknown")
    /\ UNCHANGED <<overloaded, target_type, reference, good, bad, uncertain, idx,
                   klass, refWrites, refOnEntry>>
    /\ UNCHANGED seqVars
    /\ UNCHANGED <<concVars, regionVars, seen>>

\* the unique match tested before `uncertain`
UniqueOkBeforeUncertain ==
    /\ LoopDone
    /\ Len(good) = 1
    /\ LET ent == Decl(good[1])
       IN  /\ reference' = ent.id
           /\ refWrites' = refWrites + 1
           /\ Conclude(AnalyzeParametersWithFormalRegion(ent.formals, parameters),
                       ent.formals, <<>>, "Ok")
    /\ UNCHANGED <<overloaded, target_type, good, bad, uncertain, idx, klass, refOnEntry>>
    /\ UNCHANGED seqVars
    /\ UNCHANGED <<concVars, regionVars, seen>>

\* the unique match concluding with analyze_parameters
UniqueOkWithoutRegion ==
    /\ LoopDone
    /\ ~(Len(good) > 1)
    /\ ~uncertain
    /\ Len(good) = 1
    /\ reference' = good[1]
    /\ refWrites' = refWrites + 1
    /\ Conclude(AnalyzeParameters(parameters), NoRegion, <<>>, "Ok")
    /\ UNCHANGED <<overloaded, target_type, good, bad, uncertain, idx, klass, refOnEntry>>
    /\ UNCHANGED seqVars
    /\ UNCHANGED <<concVars, regionVars, seen>>

UniqueOk ==
    /\ LoopDone
    /\ ~(Len(good) > 1)
    /\ ~uncertain
    /\ Len(good) = 1
    /\ LET ent == Decl(good[1])
       IN  /\ reference' = ent.id
           /\ refWrites' = refWrites + 1
           /\ Conclude(AnalyzeParametersWithFormalRegion(ent.formals, parameters),
                       ent.formals, <<>>, "Ok")
    /\ UNCHANGED <<overloaded, target_type, good, bad, uncertain, idx, klass, refOnEntry>>
    /\ UNCHANGED seqVars
    /\ UNCHANGED <<concVars, regionVars, seen>>

UniqueNotOk ==
    /\ LoopDone
    /\ ~(Len(good) > 1)
    /\ ~uncertain
    /\ Len(good) # 1
    /\ Len(bad) = 1
    /\ LET ent == Decl(bad[1])
       IN  /\ reference' = ent.id
           /\ refWrites' = refWrites + 1
           /\ IF IsEmpty(parameters) /\ Len(ent.formals) = 0
              THEN /\ diagnostics' = Append(diagnostics,
                        IF target_type # NoType
                        THEN Diag("does not match", <<>>, 0)
                        ELSE AddSubprogramCandidates("Could not resolve", <<ent.id>>))
                   /\ result' = "NotOk"
                   /\ pc' = "done"
                   /\ UNCHANGED <<parameters, realPasses>>
              ELSE Conclude(AnalyzeParametersWithFormalRegion(ent.formals, parameters),
                            ent.formals, <<>>, "NotOk")
    /\ UNCHANGED <<overloaded, target_type, good, bad, uncertain, idx, klass, refOnEntry>>
    /\ UNCHANGED seqVars
    /\ UNCHANGED <<concVars, regionVars, seen>>

\* the last else listing `good` in place of `bad`
UnresolvedListsGood ==
    /\ LoopDone
    /\ ~(Len(good) > 1)
    /\ ~uncertain
    /\ Len(good) # 1
    /\ Len(bad) # 1
    /\ Conclude(AnalyzeParameters(parameters), NoRegion,
                <<AddSubprogramCandidates("Could not resolve", good)>>, "NotOk")
    /\ UNCHANGED <<overloaded, target_type, reference, good, bad, uncertain, idx,
                   klass, refWrites, refOnEntry>>
    /\ UNCHANGED seqVars
    /\ UNCHANGED <<concVars, regionVars, seen>>

\* the last else resetting the call-site reference
UnresolvedClears ==
    /\ LoopDone
    /\ ~(Len(good) > 1)
    /\ ~uncertain
    /\ Len(good) # 1
    /\ Len(bad) # 1
    /\ reference' = NoRef
    /\ Conclude(AnalyzeParameters(parameters), NoRegion,
                <<AddSubprogramCandidates("Could not resolve", bad)>>, "NotOk")
    /\ UNCHANGED <<overloaded, target_type, good, bad, uncertain, idx,
                   klass, refWrites, refOnEntry>>
    /\ UNCHANGED seqVars
    /\ UNCHANGED <<concVars, regionVars, seen>>

Unresolved ==
    /\ LoopDone
    /\ ~(Len(good) > 1)
    /\ ~uncertain
    /\ Len(good) # 1
    /\ Len(bad) # 1
    /\ Conclude(AnalyzeParameters(parameters), NoRegion,
                <<AddSubprogramCandidates("Could not resolve", bad)>>, "NotOk")
    /\ UNCHANGED <<overloaded, target_type, reference, good, bad, uncertain, idx,
                   klass, refWrites, refOnEntry>>
    /\ UNCHANGED seqVars
    /\ UNCHANGED <<concVars, regionVars, seen>>

Next ==
    \/ FilterCandidate
    \/ ClassifyCandidate
    \/ Ambiguous
    \/ Uncertain
    \/ UniqueOk
    \/ UniqueNotOk
    \/ Unresolved

Spec == Init /\ [][Next]_vars

\* A declaration an earlier analysis of the call site bound the reference to.
StaleRef == "stale"

\* A call whose call-site reference slot is bound on entry (Init is the call
\* whose slot is unresolved): `reference: &mut Reference` is handed in as the
\* caller holds it.
FrameInit ==
    /\ NoStatements
    /\ NoConcurrent
    /\ NoFormalRegion
    /\ seen = <<>>
    /\ overloaded \in OverloadedNames
    /\ target_type \in TargetTypes
    /\ parameters \in ParameterSets
    /\ reference = StaleRef
    /\ refOnEntry = reference
    /\ diagnostics = <<>>
    /\ good = <<>>
    /\ bad = <<>>
    /\ uncertain = FALSE
    /\ idx = 1
    /\ pc = "loop"
    /\ result = "none"
    /\ klass = [i \in DOMAIN overloaded |-> "pending"]
    /\ refWrites = 0
    /\ realPasses = <<>>

FrameSpec == FrameInit /\ [][Next]_vars

-----------------------------------------------------------------------------
(* Sequential statements (sequential.rs).  A sequential part is held as    *)
(* the sequence of its statements in the order the depth-first analysis    *)
(* meets them, each with the depth of its nesting: the body of an if or a  *)
(* loop is the run of deeper statements that follows it.                   *)

NoLabel == "no label"
NoExpr == "no expression"
LoopIndex == "i"

\* The names a loop label may be written with: the label L1, the index of a
\* for loop, and an overloaded subprogram name of the enclosing region.
Names == {"L1", LoopIndex, "fn"}

Stmt(kind, label, expr, loop_label, scheme) ==
    [kind |-> kind, label |-> label, expr |-> expr, loop_label |-> loop_label,
     reference |-> NoRef, scheme |-> scheme, depth |-> 0]

StatementForms == {
    Stmt("return", NoLabel, NoExpr, NoLabel, ""),
    Stmt("return", NoLabel, "x", NoLabel, ""),
    Stmt("return", NoLabel, "flag", NoLabel, ""),
    Stmt("exit", NoLabel, NoExpr, "L1", ""),
    Stmt("exit", NoLabel, "missing", LoopIndex, ""),
    Stmt("next", NoLabel, NoExpr, "fn", ""),
    Stmt("next", NoLabel, "flag", NoLabel, ""),
    Stmt("null", NoLabel, NoExpr, NoLabel, ""),
    Stmt("null", "L1", NoExpr, NoLabel, ""),
    Stmt("report", NoLabel, "fatal", NoLabel, ""),
    Stmt("if", NoLabel, "flag", NoLabel, ""),
    Stmt("loop", NoLabel, LoopIndex, NoLabel, "for"),
    Stmt("loop", "L1", "flag", NoLabel, "while"),
    Stmt("loop", NoLabel, NoExpr, NoLabel, "") }

IsCompound(st) == st.kind \in {"if", "loop"}

Depths(n) ==
    {d \in [1..n -> 0..MaxDepth] :
        /\ n > 0 => d[1] = 0
        /\ \A j \in 1..(n - 1) : d[j + 1] <= d[j] + 1}

\* A statement opens a body only when it is an if or a loop.
Nests(f, d) ==
    \A j \in DOMAIN f \ {1} : d[j] = d[j - 1] + 1 => IsCompound(f[j - 1])

\* The statements f at the depths d.
SequentialPart(f, d) == [j \in DOMAIN f |-> [f[j] EXCEPT !.depth = d[j]]]

\* The statements whose body statement j lies in.
Enclosing(p, j) ==
    {k \in 1..(j - 1) :
        /\ p[k].depth < p[j].depth
        /\ \A m \in (k + 1)..j : p[m].depth > p[k].depth}

InForLoop(p, j) ==
    \E k \in Enclosing(p, j) : p[k].kind = "loop" /\ p[k].scheme = "for"

Process == [kind |-> "Process", typ |-> NoType]
Procedure == [kind |-> "Procedure", typ |-> NoType]
Function(ttyp) == [kind |-> "Function", typ |-> ttyp]
Unknown == [kind |-> "Unknown", typ |-> NoType]

SequentialRoot == {Process, Procedure, Function("integer"), Unknown}

Owners == {"Process statement", "Procedure body", "Function body", "None"}

\* The root the caller of analyze_sequential_part hands over: Process for
\* the statements of a process statement, the subprogram's kind for a
\* subprogram body, Unknown where no root is known.
RootOf(o) ==
    CASE o = "Process statement" -> Process
      [] o = "Procedure body"    -> Procedure
      [] o = "Function body"     -> Function("integer")
      [] OTHER                   -> Unknown

\* The region of the enclosing declarative part: the overloaded name fn.
EnclosingRegion == [n \in Names |-> IF n = "fn" THEN "Overloaded" ELSE "none"]

\* Scope::add of a label: a name the region already holds is reported.
AddLabel(acc, label, at) ==
    IF label = NoLabel THEN acc
    ELSE IF acc.region[label] = "none"
         THEN [acc EXCEPT !.region[label] = "Label"]
         ELSE [acc EXCEPT !.diags = Append(acc.diags, Diag("Duplicate declaration", <<>>, at))]

\* a pre-pass that does not descend into the bodies of if and loop statements
RECURSIVE DefineLabelsTopLevel(_, _, _)
DefineLabelsTopLevel(acc, p, j) ==
    IF j > Len(p) THEN acc
    ELSE DefineLabelsTopLevel(IF p[j].depth = 0 THEN AddLabel(acc, p[j].label, j) ELSE acc,
                              p, j + 1)

\* define_labels_for_sequential_part: every statement of the part and, through
\* the bodies of if and loop statements, every nested statement.
RECURSIVE DefineLabelsFrom(_, _, _)
DefineLabelsFrom(acc, p, j) ==
    IF j > Len(p) THEN acc
    ELSE DefineLabelsFrom(AddLabel(acc, p[j].label, j), p, j + 1)

\* Scope::lookup from statement j: the region of an enclosing for loop holds
\* its index, then the region of the sequential part.
Lookup(region, p, j, n) ==
    IF n = LoopIndex /\ InForLoop(p, j) THEN "LoopParameter" ELSE region[n]

\* expr_with_ttyp, boolean_expr, expr_unknown_ttyp on the expression of
\* statement `at`: the diagnostics and whether a fatal error is raised.
SeqExpr(kind, ttyp, at) ==
    [fatal |-> ExprFatal(kind),
     diags |-> IF ~ExprFatal(kind) /\ ExprDiag(kind, ttyp)
               THEN <<Diag("expression", <<>>, at)>> ELSE <<>>,
     checks |-> <<[at |-> at, ttyp |-> ttyp]>>,
     seen |-> <<>>]

NoSeqExpr == [fatal |-> FALSE, diags |-> <<>>, checks |-> <<>>, seen |-> <<>>]

\* the range analysed in the nested region that holds the index
DiscreteRangeInNested(region, p, at, n) ==
    [fatal |-> FALSE,
     diags |-> <<>>,
     checks |-> <<>>,
     seen |-> <<[at |-> at, name |-> n, ent |-> "LoopParameter"]>>]

\* drange_type on the range of the for loop `at`, a range that names n: the
\* name is looked up in the scope the loop statement stands in.
DiscreteRange(region, p, at, n) ==
    [fatal |-> FALSE,
     diags |-> IF Lookup(region, p, at, n) = "none"
               THEN <<Diag("No declaration of", <<>>, at)>> ELSE <<>>,
     checks |-> <<>>,
     seen |-> <<[at |-> at, name |-> n, ent |-> Lookup(region, p, at, n)]>>]

\* WithRef::set_unique_reference on the loop label of statement j
SetLabelReference(p, j, ent) ==
    IF ent \in {"none", "Overloaded"} THEN p ELSE [p EXCEPT ![j].reference = ent]

\* a walk that goes on to the next statement after a fatal error
StepPastFatal(stmts, diags, e) ==
    /\ statements' = stmts
    /\ diagnostics' = diagnostics \o diags \o e.diags
    /\ checked' = checked \o e.checks
    /\ seen' = seen \o e.seen
    /\ spos' = spos + 1
    /\ result' = IF e.fatal THEN "Fatal" ELSE result
    /\ UNCHANGED <<pc, owner, sroot, scope, prepass>>
    /\ UNCHANGED callVars
    /\ UNCHANGED <<concVars, regionVars>>

\* A statement's analysis: its diagnostics reach the sink; a fatal error ends
\* the analysis of the whole part, else the next statement follows.
Step(stmts, diags, e) ==
    /\ statements' = stmts
    /\ diagnostics' = diagnostics \o diags \o e.diags
    /\ checked' = checked \o e.checks
    /\ seen' = seen \o e.seen
    /\ IF e.fatal
       THEN /\ pc' = "done"
            /\ result' = "Fatal"
            /\ spos' = spos
       ELSE /\ spos' = spos + 1
            /\ UNCHANGED <<pc, result>>
    /\ UNCHANGED <<owner, sroot, scope, prepass>>
    /\ UNCHANGED callVars
    /\ UNCHANGED <<concVars, regionVars>>

AtStatement(kind) ==
    /\ pc = "main"
    /\ spos <= Len(statements)
    /\ statements[spos].kind = kind

\* A sequential part handed to analyze_sequential_part, after the label
\* pre-pass of the caller or without it; the root plays no part in the labels,
\* and a part analysed without the pre-pass is taken with no known root.
SeqInit ==
    /\ \E n \in 0..MaxStmts : \E d \in Depths(n) : \E f \in [1..n -> StatementForms] :
        /\ Nests(f, d)
        /\ statements = SequentialPart(f, d)
    /\ owner \in Owners
    /\ sroot = RootOf(owner)
    /\ scope = EnclosingRegion
    /\ spos = 1
    /\ checked = <<>>
    /\ diagnostics = <<>>
    /\ prepass \in BOOLEAN
    /\ ~prepass => owner = "None"
    /\ seen = <<>>
    /\ pc = IF prepass THEN "labels" ELSE "main"
    /\ result = "none"
    /\ NoCall
    /\ NoConcurrent
    /\ NoFormalRegion

DefineLabels ==
    /\ pc = "labels"
    /\ LET r == DefineLabelsFrom([region |-> scope, diags |-> <<>>], statements, 1)
       IN  /\ scope' = r.region
           /\ diagnostics' = diagnostics \o r.diags
    /\ pc' = "main"
    /\ UNCHANGED <<statements, owner, sroot, spos, checked, result, prepass, seen>>
    /\ UNCHANGED callVars
    /\ UNCHANGED <<concVars, regionVars>>

\* the Function arm checking the value without the return type
ReturnUntyped(root, expr, at) ==
    CASE root.kind = "Function" ->
            IF expr # NoExpr THEN SeqExpr(expr, NoType, at)
            ELSE [NoSeqExpr EXCEPT
                    !.diags = <<Diag("Functions cannot return without a value", <<>>, at)>>]
      [] root.kind = "Procedure" ->
            IF expr # NoExpr
            THEN [NoSeqExpr EXCEPT
                    !.diags = <<Diag("Procedures cannot return a value", <<>>, at)>>]
            ELSE NoSeqExpr
      [] root.kind = "Process" ->
            [NoSeqExpr EXCEPT !.diags = <<Diag("Cannot return from a process", <<>>, at)>>]
      [] root.kind = "Unknown" ->
            IF expr # NoExpr THEN SeqExpr(expr, NoType, at) ELSE NoSeqExpr

\* SequentialStatement::Return
Return(root, expr, at) ==
    CASE root.kind = "Function" ->
            IF expr # NoExpr THEN SeqExpr(expr, root.typ, at)
            ELSE [NoSeqExpr EXCEPT
                    !.diags = <<Diag("Functions cannot return without a value", <<>>, at)>>]
      [] root.kind = "Procedure" ->
            IF expr # NoExpr
            THEN [NoSeqExpr EXCEPT
                    !.diags = <<Diag("Procedures cannot return a value", <<>>, at)>>]
            ELSE NoSeqExpr
      [] root.kind = "Process" ->
            [NoSeqExpr EXCEPT !.diags = <<Diag("Cannot return from a process", <<>>, at)>>]
      [] root.kind = "Unknown" ->
            IF expr # NoExpr THEN SeqExpr(expr, NoType, at) ELSE NoSeqExpr

\* a body analysed with no known root
NestedRootUnknown(root) == Unknown

\* The root analyze_sequential_statement hands to analyze_sequential_part for
\* the body of an if, a case alternative or a loop: its own.
NestedRoot(root) == root

\* The root the statements at the depth d are analysed with.
RECURSIVE RootAtDepth(_, _)
RootAtDepth(root, d) ==
    IF d = 0 THEN root ELSE NestedRoot(RootAtDepth(root, d - 1))

AnalyzeReturn ==
    /\ AtStatement("return")
    /\ Step(statements, <<>>,
            Return(RootAtDepth(sroot, statements[spos].depth), statements[spos].expr, spos))

\* check_loop_label that takes an overloaded name for a label
CheckLoopLabelAcceptsOverloaded(ent, at) ==
    CASE ent = "none"       -> <<Diag("No declaration of", <<>>, at)>>
      [] ent = "Overloaded" -> <<>>
      [] ent = "Label"      -> <<>>
      [] OTHER              -> <<Diag("Expected loop label", <<>>, at)>>

\* check_loop_label on what the scope lookup of the label gave
CheckLoopLabel(ent, at) ==
    CASE ent = "none"       -> <<Diag("No declaration of", <<>>, at)>>
      [] ent = "Overloaded" -> <<Diag("Expected loop label, got overloaded name", <<>>, at)>>
      [] ent = "Label"      -> <<>>
      [] OTHER              -> <<Diag("Expected loop label", <<>>, at)>>

\* SequentialStatement::Exit and SequentialStatement::Next
ExitOrNext(st, at) ==
    LET ent == IF st.loop_label # NoLabel
               THEN Lookup(scope, statements, at, st.loop_label) ELSE "none"
    IN  Step(SetLabelReference(statements, at, ent),
             IF st.loop_label # NoLabel THEN CheckLoopLabel(ent, at) ELSE <<>>,
             IF st.expr # NoExpr THEN SeqExpr(st.expr, "boolean", at) ELSE NoSeqExpr)

AnalyzeExit ==
    /\ AtStatement("exit")
    /\ ExitOrNext(statements[spos], spos)

AnalyzeNext ==
    /\ AtStatement("next")
    /\ ExitOrNext(statements[spos], spos)

\* SequentialStatement::If: the condition, then the body
AnalyzeIf ==
    /\ AtStatement("if")
    /\ Step(statements, <<>>, SeqExpr(statements[spos].expr, "boolean", spos))

\* SequentialStatement::Loop: the range of a for loop in the scope of the
\* statement and the body in a nested scope that holds the index; the
\* condition of a while loop; then the body, for a while loop and a plain
\* loop in the scope of the statement
AnalyzeLoop ==
    /\ AtStatement("loop")
    /\ Step(statements, <<>>,
            CASE statements[spos].scheme = "for" ->
                    DiscreteRange(scope, statements, spos, statements[spos].expr)
              [] statements[spos].scheme = "while" ->
                    SeqExpr(statements[spos].expr, "boolean", spos)
              [] OTHER -> NoSeqExpr)

\* SequentialStatement::Report
AnalyzeReport ==
    /\ AtStatement("report")
    /\ Step(statements, <<>>, SeqExpr(statements[spos].expr, "string", spos))

\* SequentialStatement::Null
AnalyzeNull ==
    /\ AtStatement("null")
    /\ Step(statements, <<>>, NoSeqExpr)

\* analyze_sequential_part returns Ok(()) after the last statement
SequentialPartDone ==
    /\ pc = "main"
    /\ spos > Len(statements)
    /\ pc' = "done"
    /\ result' = "Ok"
    /\ UNCHANGED <<diagnostics, statements, owner, sroot, scope, spos, checked, prepass, seen>>
    /\ UNCHANGED callVars
    /\ UNCHANGED <<concVars, regionVars>>

SeqNext ==
    \/ DefineLabels
    \/ AnalyzeReturn
    \/ AnalyzeExit
    \/ AnalyzeNext
    \/ AnalyzeIf
    \/ AnalyzeLoop
    \/ AnalyzeReport
    \/ AnalyzeNull
    \/ SequentialPartDone

SeqSpec == SeqInit /\ [][SeqNext]_vars

-----------------------------------------------------------------------------
(* Instantiation statements (concurrent.rs, analyze_instance).  The unit    *)
(* name is held by what its resolution gives.                               *)

InstantiatedUnit == {"Entity", "Component", "Configuration"}

\* What resolving the unit name in the scope gives: a declaration of the
\* expected kind, a lookup failure, an overloaded name, a declaration of
\* another kind, or a fatal error.
Resolutions == {"unit", "not found", "overloaded", "other kind", "fatal"}

\* to_entity_formal of the instantiated unit: its generics and its ports
GenericRegion == <<"integer">>
PortRegion == <<"integer", "boolean">>

Maps == UNION {ActualLists(n) : n \in 0..MaxActuals}

\* resolve_selected_name, then resolve_non_overloaded and the test of the
\* kind: the diagnostic of a name that is not one unit of the expected kind.
UnitError(resolution, at) ==
    CASE resolution = "not found"  -> <<Diag("No declaration of", <<>>, at)>>
      [] resolution = "overloaded" -> <<Diag("Expected unit, got overloaded name", <<>>, at)>>
      [] resolution = "other kind" -> <<Diag("Expected unit", <<>>, at)>>
      [] OTHER                     -> <<>>

\* The analysis of one map, against a formal region or against the scope only.
AnalyzeMap(region, elems) ==
    IF region = NoRegion
    THEN AnalyzeAssocElems([shape |-> "assoc", elems |-> elems])
    ELSE AnalyzeAssocElemsWithFormalRegion(region, [shape |-> "assoc", elems |-> elems])

\* The generic map and then the port map; a fatal error in the generic map
\* leaves the port map alone.
AnalyzeMaps(inst, generic_region, port_region) ==
    LET g == AnalyzeMap(generic_region, inst.generic_map)
        p == AnalyzeMap(port_region, inst.port_map)
    IN  IF g.fatal
        THEN [inst  |-> [inst EXCEPT !.generic_map = g.params.elems],
              diags |-> g.diags,
              maps  |-> <<[map |-> "generic", region |-> generic_region]>>,
              fatal |-> TRUE]
        ELSE [inst  |-> [inst EXCEPT !.generic_map = g.params.elems,
                                     !.port_map = p.params.elems],
              diags |-> g.diags \o p.diags,
              maps  |-> <<[map |-> "generic", region |-> generic_region],
                          [map |-> "port", region |-> port_region]>>,
              fatal |-> p.fatal]

NoMaps(inst, fatal) == [inst |-> inst, diags |-> <<>>, maps |-> <<>>, fatal |-> fatal]

\* InstantiatedUnit::Entity and InstantiatedUnit::Component: the maps are
\* analysed inside the and_then of a successful resolution.
UnitInstance(inst) ==
    CASE inst.resolution = "unit"  -> AnalyzeMaps(inst, GenericRegion, PortRegion)
      [] inst.resolution = "fatal" -> NoMaps(inst, TRUE)
      [] OTHER                     -> NoMaps(inst, FALSE)

\* InstantiatedUnit::Configuration: the maps are analysed after the
\* resolution, with analyze_assoc_elems.
ConfigurationInstance(inst) ==
    IF inst.resolution = "fatal" THEN NoMaps(inst, TRUE)
    ELSE AnalyzeMaps(inst, NoRegion, NoRegion)

InstInit ==
    /\ \E u \in InstantiatedUnit, r \in Resolutions, g \in Maps, p \in Maps :
        instance = [unit |-> u, resolution |-> r, generic_map |-> g, port_map |-> p]
    /\ mapsAnalysed = <<>>
    /\ cstatements = <<>>
    /\ cpos = 1
    /\ scopes = <<>>
    /\ diagnostics = <<>>
    /\ pc = "instance"
    /\ result = "none"
    /\ seen = <<>>
    /\ NoCall
    /\ NoStatements
    /\ NoFormalRegion

\* analyze_instance from the outcome r of the arm of instance.unit
InstanceAnalysed(r) ==
    /\ instance' = r.inst
    /\ diagnostics' = diagnostics \o UnitError(instance.resolution, 0) \o r.diags
    /\ mapsAnalysed' = mapsAnalysed \o r.maps
    /\ pc' = "done"
    /\ result' = IF r.fatal THEN "Fatal" ELSE "Ok"
    /\ UNCHANGED <<cstatements, cpos, scopes, seen>>
    /\ UNCHANGED callVars
    /\ UNCHANGED seqVars
    /\ UNCHANGED regionVars

AnalyzeEntityInstance ==
    /\ pc = "instance"
    /\ instance.unit = "Entity"
    /\ InstanceAnalysed(UnitInstance(instance))

AnalyzeComponentInstance ==
    /\ pc = "instance"
    /\ instance.unit = "Component"
    /\ InstanceAnalysed(UnitInstance(instance))

AnalyzeConfigurationInstance ==
    /\ pc = "instance"
    /\ instance.unit = "Configuration"
    /\ InstanceAnalysed(ConfigurationInstance(instance))

InstNext ==
    \/ AnalyzeEntityInstance
    \/ AnalyzeComponentInstance
    \/ AnalyzeConfigurationInstance

InstSpec == InstInit /\ [][InstNext]_vars

-----------------------------------------------------------------------------
(* Concurrent statements (concurrent.rs).  A concurrent part is held as the *)
(* sequence of its statements in the order the analysis meets them, each    *)
(* with the depth of its nesting.  The branches of an if generate and the   *)
(* alternatives of a case generate after the first are held as statements   *)
(* of kind "alternative" that follow the body of the one before.            *)

\* The names concurrent statements declare and use: the alternative label
\* A1, the index g of a for generate, the statement label B1.
CNames == {"A1", "g", "B1"}

EmptyRegion == [n \in CNames |-> "none"]

\* Scope::nested
Nested(chain) == Append(chain, EmptyRegion)

\* Scope::lookup: the nearest region of the chain that holds the name.
ScopeLookup(chain, n) ==
    LET holds == {i \in DOMAIN chain : chain[i][n] # "none"}
    IN  IF holds = {} THEN "none"
        ELSE chain[CHOOSE i \in holds : \A k \in holds : k <= i][n]

\* Scope::add to the innermost region: a name that region already holds is
\* reported.
ScopeAdd(acc, n, kind, at) ==
    LET top == Len(acc.chain)
    IN  IF n = NoLabel THEN acc
        ELSE IF acc.chain[top][n] = "none"
        THEN [acc EXCEPT !.chain[top][n] = kind]
        ELSE [acc EXCEPT !.diags = Append(acc.diags, Diag("Duplicate declaration", <<>>, at))]

CStmt(kind, label, expr, alternative_label) ==
    [kind |-> kind, label |-> label, expr |-> expr,
     alternative_label |-> alternative_label, depth |-> 0]

ConcurrentForms == {
    CStmt("assert", NoLabel, "A1", NoLabel),
    CStmt("assert", NoLabel, "g", NoLabel),
    CStmt("assert", NoLabel, "fatal", NoLabel),
    CStmt("block", "B1", NoExpr, NoLabel),
    CStmt("for_generate", NoLabel, "g", NoLabel),
    CStmt("if_generate", NoLabel, "A1", "A1"),
    CStmt("case_generate", NoLabel, "g", "A1"),
    CStmt("alternative", NoLabel, NoExpr, NoLabel) }

HasBody(st) ==
    st.kind \in {"block", "for_generate", "if_generate", "case_generate", "alternative"}

CDepths(n) ==
    {d \in [1..n -> 0..MaxNest] :
        /\ n > 0 => d[1] = 0
        /\ \A j \in 1..(n - 1) : d[j + 1] <= d[j] + 1}

\* The statement before j in the list that holds j.
PrevSibling(f, d, j) ==
    {k \in 1..(j - 1) : d[k] = d[j] /\ \A m \in (k + 1)..(j - 1) : d[m] > d[j]}

\* A statement opens a body only when it has one; an alternative follows an
\* if generate, a case generate or another alternative.
CNests(f, d) ==
    /\ \A j \in DOMAIN f \ {1} : d[j] = d[j - 1] + 1 => HasBody(f[j - 1])
    /\ \A j \in DOMAIN f :
        f[j].kind = "alternative" =>
            \E k \in PrevSibling(f, d, j) :
                f[k].kind \in {"if_generate", "case_generate", "alternative"}

ConcurrentPart(f, d) == [j \in DOMAIN f |-> [f[j] EXCEPT !.depth = d[j]]]

\* analyze_expression of an expression of statement `at` in the scope: a
\* name is looked up, a name the scope does not hold is reported.
CExpr(chain, expr, at) ==
    IF expr = NoExpr THEN [fatal |-> FALSE, diags |-> <<>>, seen |-> <<>>]
    ELSE IF ExprFatal(expr) THEN [fatal |-> TRUE, diags |-> <<>>, seen |-> <<>>]
    ELSE [fatal |-> FALSE,
          diags |-> IF ScopeLookup(chain, expr) = "none"
                    THEN <<Diag("No declaration of", <<>>, at)>> ELSE <<>>,
          seen  |-> <<[at |-> at, name |-> expr, ent |-> ScopeLookup(chain, expr)]>>]

\* The scope statement j is analysed in: the chain down to its depth.
ScopeAt(j) == SubSeq(scopes, 1, cstatements[j].depth + 1)

\* The label of the statement is added to the scope it is analysed in.
LabelDefined(j) ==
    ScopeAdd([chain |-> ScopeAt(j), diags |-> <<>>], cstatements[j].label, "Label", j)

\* analyze_generate_body: the alternative label is added to the scope of the
\* body, `nested`.
GenerateBody(nested, st, at) ==
    ScopeAdd([chain |-> nested, diags |-> <<>>], st.alternative_label, "Label", at)

\* A statement's analysis: acc holds the scope and the diagnostics up to the
\* expression, e the analysis of the expression, body the scope and the
\* diagnostics of the body that follows.
CStep(acc, e, body) ==
    /\ seen' = seen \o e.seen
    /\ IF e.fatal
       THEN /\ diagnostics' = diagnostics \o acc.diags
            /\ scopes' = acc.chain
            /\ pc' = "done"
            /\ result' = "Fatal"
            /\ cpos' = cpos
       ELSE /\ diagnostics' = diagnostics \o acc.diags \o e.diags \o body.diags
            /\ scopes' = body.chain
            /\ cpos' = cpos + 1
            /\ UNCHANGED <<pc, result>>
    /\ UNCHANGED <<instance, mapsAnalysed, cstatements>>
    /\ UNCHANGED callVars
    /\ UNCHANGED seqVars
    /\ UNCHANGED regionVars

AtConcurrent(kind) ==
    /\ pc = "concurrent"
    /\ cpos <= Len(cstatements)
    /\ cstatements[cpos].kind = kind

NoExprAnalysed == [fatal |-> FALSE, diags |-> <<>>, seen |-> <<>>]

ConcInit ==
    /\ \E n \in 0..MaxConc : \E d \in CDepths(n) : \E f \in [1..n -> ConcurrentForms] :
        /\ CNests(f, d)
        /\ cstatements = ConcurrentPart(f, d)
    /\ cpos = 1
    /\ scopes = <<EmptyRegion>>
    /\ instance = <<>>
    /\ mapsAnalysed = <<>>
    /\ seen = <<>>
    /\ diagnostics = <<>>
    /\ pc = "concurrent"
    /\ result = "none"
    /\ NoCall
    /\ NoStatements
    /\ NoFormalRegion

\* ConcurrentStatement::Block: the body in a nested scope
AnalyzeBlock ==
    /\ AtConcurrent("block")
    /\ LET acc == LabelDefined(cpos)
       IN  CStep(acc, NoExprAnalysed, [chain |-> Nested(acc.chain), diags |-> <<>>])

\* ConcurrentStatement::ForGenerate: the range in the scope of the statement,
\* the index in a nested scope, the body in that scope
AnalyzeForGenerate ==
    /\ AtConcurrent("for_generate")
    /\ LET acc == LabelDefined(cpos)
           index == ScopeAdd([chain |-> Nested(acc.chain), diags |-> <<>>],
                             "g", "LoopParameter", cpos)
       IN  CStep(acc, CExpr(acc.chain, cstatements[cpos].expr, cpos),
                 GenerateBody(index.chain, cstatements[cpos], cpos))

\* ConcurrentStatement::IfGenerate, the first conditional: the condition in
\* the scope of the statement, the body in a nested scope
AnalyzeIfGenerate ==
    /\ AtConcurrent("if_generate")
    /\ LET acc == LabelDefined(cpos)
       IN  CStep(acc, CExpr(acc.chain, cstatements[cpos].expr, cpos),
                 GenerateBody(Nested(acc.chain), cstatements[cpos], cpos))

\* ConcurrentStatement::CaseGenerate, the first alternative: the body in a
\* nested scope; the expression and the choices are not looked at
AnalyzeCaseGenerate ==
    /\ AtConcurrent("case_generate")
    /\ LET acc == LabelDefined(cpos)
       IN  CStep(acc, NoExprAnalysed,
                 GenerateBody(Nested(acc.chain), cstatements[cpos], cpos))

\* The else item of an if generate and the further alternatives of a case
\* generate: the body in a nested scope
AnalyzeAlternative ==
    /\ AtConcurrent("alternative")
    /\ LET acc == [chain |-> ScopeAt(cpos), diags |-> <<>>]
       IN  CStep(acc, NoExprAnalysed,
                 GenerateBody(Nested(acc.chain), cstatements[cpos], cpos))

\* ConcurrentStatement::Assert: the condition in the scope of the statement
AnalyzeAssert ==
    /\ AtConcurrent("assert")
    /\ LET acc == LabelDefined(cpos)
       IN  CStep(acc, CExpr(acc.chain, cstatements[cpos].expr, cpos), acc)

\* analyze_concurrent_part returns Ok(()) after the last statement
ConcurrentPartDone ==
    /\ pc = "concurrent"
    /\ cpos > Len(cstatements)
    /\ pc' = "done"
    /\ result' = "Ok"
    /\ UNCHANGED <<diagnostics, seen>>
    /\ UNCHANGED concVars
    /\ UNCHANGED callVars
    /\ UNCHANGED seqVars
    /\ UNCHANGED regionVars

ConcNext ==
    \/ AnalyzeBlock
    \/ AnalyzeForGenerate
    \/ AnalyzeIfGenerate
    \/ AnalyzeCaseGenerate
    \/ AnalyzeAlternative
    \/ AnalyzeAssert
    \/ ConcurrentPartDone

ConcSpec == ConcInit /\ [][ConcNext]_vars

-----------------------------------------------------------------------------
(* The analyses together: one overload resolution, one sequential part, one *)
(* concurrent part or one instantiation statement, over one sink.           *)

AnalysisInit == Init \/ SeqInit \/ ConcInit \/ InstInit

AnalysisNext == Next \/ SeqNext \/ ConcNext \/ InstNext

AnalysisSpec == AnalysisInit /\ [][AnalysisNext]_vars

\* The statement lists alone.
StatementInit == SeqInit \/ ConcInit

StatementNext == SeqNext \/ ConcNext

StatementSpec == StatementInit /\ [][StatementNext]_vars

-----------------------------------------------------------------------------
(* FormalRegion (formal_region.rs) *)

Designators == {"a", "b"}

\* NamedEntityKind, as far as from_any tells the kinds apart: an object with
\* a mode, an object without one, an interface file, anything else.
EntityKinds == {"Object with mode", "Object", "InterfaceFile", "Type"}

NamedEntity == [designator : Designators, kind : EntityKinds]

\* InterfaceEnt::from_any: Some(..) as a sequence of one element, None as the
\* empty sequence
FromAny(ent) ==
    IF ent.kind \in {"Object with mode", "InterfaceFile"} THEN <<ent>> ELSE <<>>

InterfaceEnt == {ent \in NamedEntity : FromAny(ent) # <<>>}

\* FormalRegion::lookup
RECURSIVE LookupFrom(_, _, _)
LookupFrom(ents, designator, i) ==
    IF i > Len(ents) THEN Diag("No declaration of", <<>>, designator)
    ELSE IF ents[i].designator = designator THEN ents[i]
    ELSE LookupFrom(ents, designator, i + 1)

\* a lookup that returns the last element of the designator
RegionLookupLast(ents, designator) ==
    LET at == {i \in DOMAIN ents : ents[i].designator = designator}
    IN  IF at = {} THEN Diag("No declaration of", <<>>, designator)
        ELSE ents[CHOOSE i \in at : \A k \in at : k <= i]

RegionLookup(ents, designator) == LookupFrom(ents, designator, 1)

\* FormalRegion::len
RegionLen(ents) == Len(ents)

\* FormalRegion::nth
RegionNth(ents, i) == IF i < Len(ents) THEN ents[i + 1] ELSE "None"

\* No query has been made since the region was last changed.
NoAnswer == [op |-> "none"]

RegionInit ==
    /\ \E n \in 0..1 : \E v \in [1..n -> InterfaceEnt] :
        /\ entities = v
        /\ added = v
    /\ flagged = 0
    /\ debug \in BOOLEAN
    /\ answer = NoAnswer
    /\ diagnostics = <<>>
    /\ pc = "region"
    /\ result = "none"
    /\ seen = <<>>
    /\ NoCall
    /\ NoStatements
    /\ NoConcurrent

RegionUnchanged ==
    /\ UNCHANGED <<diagnostics, result, seen, debug>>
    /\ UNCHANGED callVars
    /\ UNCHANGED seqVars
    /\ UNCHANGED concVars

\* FormalRegion::add: the declaration is pushed when from_any takes it; else
\* the debug assertion fails, which ends a build with debug assertions and
\* is nothing in a build without them.
RegionAdd ==
    /\ pc = "region"
    /\ Len(added) < MaxAdds
    /\ \E param \in NamedEntity :
        /\ added' = Append(added, param)
        /\ entities' = entities \o FromAny(param)
        /\ flagged' = IF FromAny(param) = <<>> THEN flagged + 1 ELSE flagged
        /\ pc' = IF FromAny(param) = <<>> /\ debug THEN "panicked" ELSE pc
    /\ answer' = NoAnswer
    /\ RegionUnchanged

\* A call of lookup, len or nth on the region
RegionQuery ==
    /\ pc = "region"
    /\ answer = NoAnswer
    /\ \/ \E d \in Designators :
            answer' = [op |-> "lookup", arg |-> d, result |-> RegionLookup(entities, d)]
       \/ answer' = [op |-> "len", arg |-> "", result |-> RegionLen(entities)]
       \/ \E i \in 0..MaxAdds :
            answer' = [op |-> "nth", arg |-> i, result |-> RegionNth(entities, i)]
    /\ UNCHANGED <<entities, added, flagged, pc>>
    /\ RegionUnchanged

RegionNext ==
    \/ RegionAdd
    \/ RegionQuery

RegionSpec == RegionInit /\ [][RegionNext]_vars

-----------------------------------------------------------------------------
(* Properties of resolve_overloaded_with_target_type *)

Done == pc = "done"

\* The candidate loop ran to its end and one branch of the chain was taken.
Finished == Done /\ idx > Len(overloaded)

\* The call returned Ok(TypeCheck), not a fatal error.
Returned == Finished /\ result # "Fatal"

Classified(k) == {i \in DOMAIN klass : klass[i] = k}
Count(k) == Cardinality(Classified(k))

BoundActuals == {i \in DOMAIN parameters.elems : parameters.elems[i].ref # NoRef}

Reported(kind) == {i \in DOMAIN diagnostics : diagnostics[i].kind = kind}

Range(s) == {s[i] : i \in DOMAIN s}

Listed == UNION {Range(diagnostics[i].cands) : i \in DOMAIN diagnostics}

\* The target type the concluding pass analysed actual i with.
ConcludingTarget(i) ==
    IF realPasses = <<NoRegion>> THEN NoType ELSE Nth(realPasses[1], i - 1)

C2_Uniqueness ==
    (Done /\ refOnEntry = NoRef) =>
        /\ result = "Ok" =>
              /\ refWrites = 1
              /\ Count("Ok") = 1
              /\ \A i \in Classified("Ok") : reference = overloaded[i]
        /\ \A d \in Reported("Ambiguous use") :
              /\ refWrites = 0
              /\ reference = NoRef
              /\ Len(diagnostics[d].cands) = Count("Ok")
              /\ Count("Ok") >= 2

C2_Witness ==
    /\ Returned
    /\ refOnEntry = NoRef
    /\ Reported("Ambiguous use") # {}
    /\ Count("NotOk") > 0

\* C3 as stated: when some candidate's check yields Unknown, the call reports
\* no ambiguous use and returns Unknown.
C3_UnknownSuppressesAmbiguity ==
    (Returned /\ Count("Unknown") > 0) =>
        /\ Reported("Ambiguous use") = {}
        /\ result = "Unknown"

\* C3 amended: when some candidate's check yields Unknown the call returns
\* Unknown, never Ok or NotOk, and it reports an ambiguous use exactly when
\* two or more other candidates are classified Ok.
C3_UnknownNeverNotOk ==
    (Returned /\ Count("Unknown") > 0) =>
        /\ result = "Unknown"
        /\ Reported("Ambiguous use") # {} <=> Count("Ok") >= 2

\* One candidate matches and another is Unknown.
C3_Witness ==
    /\ Returned
    /\ Count("Unknown") = 1
    /\ Count("Ok") = 1
    /\ result = "Unknown"

\* C4: exactly one candidate classified Ok and none Unknown: the reference is
\* bound to that candidate, the parameters are analysed once, with the real
\* sink, against its formal region, and the call returns Ok.
C4_UniqueMatch ==
    (Finished /\ Count("Ok") = 1 /\ Count("Unknown") = 0) =>
        \A i \in Classified("Ok") :
            /\ reference = overloaded[i]
            /\ refWrites = 1
            /\ realPasses = <<Decl(overloaded[i]).formals>>
            /\ result = "Ok"

\* f(x, x) with integer x against f(integer, integer) return boolean and
\* f(integer, integer) return integer, target type boolean.
C4_Witness ==
    /\ Finished
    /\ overloaded = <<"f_ii_b", "f_ii_i">>
    /\ target_type = "boolean"
    /\ parameters.shape = "assoc"
    /\ Len(parameters.elems) = 2
    /\ \A i \in 1..2 : parameters.elems[i].kind = "x"
    /\ klass = <<"Ok", "NotOk">>
    /\ reference = "f_ii_b"
    /\ result = "Ok"

\* C5: some candidate Unknown and at most one Ok: the call returns Unknown,
\* does not touch the reference, reports neither an ambiguous use nor a
\* failure to resolve, and analyses the parameters once with the real sink
\* and without a formal region.
C5_UnknownOutcome ==
    (Finished /\ Count("Unknown") >= 1 /\ Count("Ok") <= 1) =>
        /\ result = "Unknown"
        /\ reference = refOnEntry
        /\ refWrites = 0
        /\ Reported("Ambiguous use") = {}
        /\ Reported("Could not resolve") = {}
        /\ Reported("does not match") = {}
        /\ realPasses = <<NoRegion>>

C5_Witness ==
    /\ Finished
    /\ Count("Unknown") = 1
    /\ Count("Ok") = 1
    /\ Count("NotOk") = 1
    /\ realPasses = <<NoRegion>>

NullaryCall(i) == IsEmpty(parameters) /\ Decl(overloaded[i]).formals = <<>>

\* C6: exactly one candidate classified NotOk and none Ok or Unknown: the
\* reference is bound to it and a call that returns returns NotOk; with no
\* parameters and no formals the only diagnostic is the direct "does not
\* match" one, with no candidate listed, and no parameter analysis is made;
\* otherwise the call reports nothing of its own and analyses the parameters
\* once, with the real sink, against that candidate's formal region.
C6_UniqueMismatch ==
    (Finished /\ Count("NotOk") = 1 /\ Count("Ok") = 0 /\ Count("Unknown") = 0) =>
        \A i \in Classified("NotOk") :
            /\ reference = overloaded[i]
            /\ refWrites = 1
            /\ result \in {"NotOk", "Fatal"}
            /\ Reported("Ambiguous use") = {}
            /\ Reported("Could not resolve") = {}
            /\ Listed = {}
            /\ IF NullaryCall(i)
               THEN /\ diagnostics = <<Diag("does not match", <<>>, 0)>>
                    /\ realPasses = <<>>
                    /\ result = "NotOk"
               ELSE /\ Reported("does not match") = {}
                    /\ realPasses = <<Decl(overloaded[i]).formals>>

C6_Witness ==
    /\ Returned
    /\ Count("NotOk") = 1
    /\ Count("skipped") = 1
    /\ \E i \in Classified("NotOk") : NullaryCall(i)
    /\ Reported("does not match") # {}

\* C7: no candidate Ok or Unknown and zero or at least two NotOk: exactly one
\* "Could not resolve" diagnostic, listing the NotOk candidates and nothing
\* else, the reference untouched, and a call that returns returns NotOk.
C7_Unresolved ==
    (Finished /\ Count("Ok") = 0 /\ Count("Unknown") = 0 /\ Count("NotOk") # 1) =>
        /\ Cardinality(Reported("Could not resolve")) = 1
        /\ \A d \in Reported("Could not resolve") :
              /\ Range(diagnostics[d].cands) = {overloaded[i] : i \in Classified("NotOk")}
              /\ Len(diagnostics[d].cands) = Count("NotOk")
        /\ Reported("Ambiguous use") = {}
        /\ Reported("does not match") = {}
        /\ reference = refOnEntry
        /\ refWrites = 0
        /\ result \in {"NotOk", "Fatal"}
        /\ realPasses = <<NoRegion>>

\* g without parameters against two nullary functions, neither returning the
\* target type time: both are listed.
C7_Witness ==
    /\ Returned
    /\ overloaded = <<"g_i", "g_b">>
    /\ target_type = "time"
    /\ IsEmpty(parameters)
    /\ result = "NotOk"
    /\ \E d \in DOMAIN diagnostics :
          diagnostics[d] = Diag("Could not resolve", <<"g_i", "g_b">>, 0)

\* What the filter is to discard: function-ness against the presence of a
\* target type, and for operator call sites the number of formals.
Discarded(i) ==
    LET d == Decl(overloaded[i])
    IN  \/ (d.ret # NoType) # (target_type # NoType)
        \/ parameters.shape = "unary" /\ Len(d.formals) # 1
        \/ parameters.shape = "binary" /\ Len(d.formals) # 2

\* C8: a candidate the loop has passed was discarded exactly when the filter
\* is to discard it (association lists filter on no arity); a discarded
\* candidate is in no bucket, in no diagnostic, and is not what the
\* reference is bound to.
C8_Filter ==
    \A i \in DOMAIN overloaded :
        /\ klass[i] # "pending" => (klass[i] = "skipped" <=> Discarded(i))
        /\ klass[i] = "skipped" =>
              /\ overloaded[i] \notin Range(good) \cup Range(bad)
              /\ overloaded[i] \notin Listed
              /\ reference # overloaded[i]

\* A binary operator call site where the filter discards one function and
\* keeps another.
C8_Witness ==
    /\ Finished
    /\ parameters.shape = "binary"
    /\ target_type # NoType
    /\ \E i, j \in DOMAIN overloaded :
          /\ klass[i] = "skipped"
          /\ Decl(overloaded[i]).ret # NoType
          /\ klass[j] \notin {"skipped", "pending"}

-----------------------------------------------------------------------------
(* Properties of analyze_sequential_part *)

\* The statements whose analysis has completed.
Analysed(kind) ==
    {j \in 1..Len(statements) : j < spos /\ statements[j].kind = kind}

DiagsAt(j) == {diagnostics[i].kind : i \in {k \in DOMAIN diagnostics : diagnostics[k].at = j}}

LegalityDiags == {"Functions cannot return without a value",
                  "Procedures cannot return a value",
                  "Cannot return from a process"}

HasValue(j) == statements[j].expr # NoExpr

CheckedAgainst(j, ttyp) == [at |-> j, ttyp |-> ttyp] \in Range(checked)

Denotes(j) ==
    LET n == statements[j].loop_label
    IN  CASE n = "L1" ->
                IF prepass /\ \E k \in 1..Len(statements) : statements[k].label = "L1"
                THEN "Label" ELSE "none"
          [] n = LoopIndex ->
                IF InForLoop(statements, j) THEN "LoopParameter" ELSE "none"
          [] OTHER -> "Overloaded"

WithLoopLabel ==
    {j \in Analysed("exit") \cup Analysed("next") : statements[j].loop_label # NoLabel}

ExpectedLoopLabel(j) ==
    \E k \in DiagsAt(j) : k \in {"Expected loop label",
                                 "Expected loop label, got overloaded name"}

\* C10: an exit or next statement whose loop label is not found gets the
\* lookup diagnostic, raises no fatal error, still has its condition checked,
\* and the statements after it are still analysed; a label that denotes a
\* single declaration that is not a label, or an overloaded name, gets an
\* "Expected loop label" diagnostic; a label that denotes a label gets none.
C10_LoopLabel ==
    /\ \A j \in WithLoopLabel :
        /\ Denotes(j) = "none"
            => /\ "No declaration of" \in DiagsAt(j)
               /\ HasValue(j) => CheckedAgainst(j, "boolean")
        /\ Denotes(j) \in {"LoopParameter", "Overloaded"} => ExpectedLoopLabel(j)
        /\ Denotes(j) = "Label"
            => /\ ~ExpectedLoopLabel(j)
               /\ "No declaration of" \notin DiagsAt(j)
    /\ result = "Fatal" => statements[spos].kind = "report"
    /\ pc = "done" /\ result = "Ok" => spos = Len(statements) + 1

\* A part is analysed to its end past an exit whose label is not found and
\* whose condition is checked, with every other outcome of a label in reach.
C10_Witness ==
    /\ pc = "done"
    /\ result = "Ok"
    /\ \E j \in WithLoopLabel :
        /\ Denotes(j) = "none"
        /\ HasValue(j)
        /\ j < Len(statements)

-----------------------------------------------------------------------------
(* Visibility of sequential labels *)

\* The exit and next statements analysed so far that name the label L1.
NamesLabel == {j \in WithLoopLabel : statements[j].loop_label = "L1"}

\* Statement j lies in the body (or the list) that holds statement k.
InBlockOf(k, j) == Enclosing(statements, k) \subseteq Enclosing(statements, j)

\* C11: after the label pre-pass an exit or next resolves the label of
\* statement N exactly when it lies in the list that holds N or in a body
\* nested in that list; from outside the if or loop body that holds N the
\* label is not resolved.
C11_LabelVisibleOnlyInsideBlock ==
    prepass =>
        \A j \in NamesLabel :
            statements[j].reference = "Label"
                <=> \E k \in 1..Len(statements) :
                        statements[k].label = "L1" /\ InBlockOf(k, j)

-----------------------------------------------------------------------------
(* Properties of analyze_instance *)

MapAnalysed(map, region) == [map |-> map, region |-> region] \in Range(mapsAnalysed)

InstanceDone == pc = "done" /\ instance # <<>>

\* C12: when the unit name of an instance is not found, is overloaded or
\* denotes a declaration of another kind, a diagnostic is emitted without a
\* fatal error and the generic map and the port map are still analysed
\* against the scope only; when the name resolves, the generic map is
\* analysed against the generics of the unit and the port map against its
\* ports.
C12_InstanceMaps ==
    InstanceDone =>
        /\ instance.resolution \in {"not found", "overloaded", "other kind"}
            => /\ UnitError(instance.resolution, 0)[1] \in Range(diagnostics)
               /\ MapAnalysed("generic", NoRegion)
               /\ result # "Fatal" => MapAnalysed("port", NoRegion)
        /\ instance.resolution = "unit"
            => /\ MapAnalysed("generic", GenericRegion)
               /\ result # "Fatal" => MapAnalysed("port", PortRegion)

-----------------------------------------------------------------------------
(* Properties of the diagnostic sink *)

IsPrefix(s, t) == Len(s) <= Len(t) /\ SubSeq(t, 1, Len(s)) = s

\* The candidate loop of an overload resolution is running.
Speculating == pc = "loop" /\ overloaded # <<>> /\ idx <= Len(overloaded)

\* The speculative pass of candidate i reported something to its handler.
SpeculativeDiagnostics(i) ==
    /\ klass[i] \in {"Ok", "NotOk", "Unknown"}
    /\ Speculate(Decl(overloaded[i]), target_type, parameters).diags # <<>>

\* C13: every step of an overload resolution, of the analysis of a
\* sequential or concurrent part and of an instantiation leaves what the
\* sink held as a prefix of what it holds afterwards, and a step of the
\* candidate loop, with its speculative pass, leaves the sink as it was.
C13_AppendOnly ==
    [][/\ IsPrefix(diagnostics, diagnostics')
       /\ Speculating => diagnostics' = diagnostics]_vars

\* A call has returned with diagnostics in the sink after a speculative pass
\* that reported to its own handler.
C13_Witness ==
    /\ Finished
    /\ Len(diagnostics) > 1
    /\ \E i \in DOMAIN overloaded : SpeculativeDiagnostics(i)

-----------------------------------------------------------------------------
(* Properties of the fatal channel *)

\* The statement the analysis of a list stands at.
AtFatalExpression ==
    \/ /\ spos <= Len(statements)
       /\ ExprFatal(statements[spos].expr)
    \/ /\ cpos <= Len(cstatements)
       /\ ExprFatal(cstatements[cpos].expr)

\* A diagnostic of the label pre-pass, which has been over the whole
\* sequential part before its first statement is analysed.
OfPrePass(d) == statements # <<>> /\ d.kind = "Duplicate declaration"

\* Nothing of a statement after the one the analysis stands at has been
\* analysed: no diagnostic, no expression analysis, no lookup, no reference.
NothingAfter ==
    /\ \A i \in DOMAIN diagnostics :
        \/ OfPrePass(diagnostics[i])
        \/ diagnostics[i].at <= IF statements # <<>> THEN spos ELSE cpos
    /\ \A i \in DOMAIN checked : checked[i].at <= spos
    /\ \A i \in DOMAIN seen : seen[i].at <= IF statements # <<>> THEN spos ELSE cpos
    /\ \A j \in DOMAIN statements : j > spos => statements[j].reference = NoRef

\* C14: a fatal error raised by statement k of a sequential or concurrent
\* list ends the analysis there and is returned: the position stays at k, no
\* statement after k, nested or of an enclosing list, is analysed, and what
\* the sink held stays in it in order; a step that raises no fatal error goes
\* on to the next statement whatever diagnostics it appended.
C14_FatalStops ==
    /\ [][/\ pc # "done"
          /\ IsPrefix(diagnostics, diagnostics')
          /\ result' = "Fatal" =>
                /\ pc' = "done"
                /\ spos' = spos
                /\ cpos' = cpos
          /\ result' # "Fatal" /\ pc \in {"main", "concurrent"} =>
                \/ spos' + cpos' = spos + cpos + 1 /\ pc' = pc
                \/ /\ spos > Len(statements)
                   /\ cpos > Len(cstatements)
                   /\ pc' = "done"
                   /\ result' = "Ok"]_vars
    /\ [](result = "Fatal" => pc = "done" /\ AtFatalExpression /\ NothingAfter)
    /\ [](pc = "done" /\ result = "Ok" =>
            spos = Len(statements) + 1 /\ cpos = Len(cstatements) + 1)

\* A fatal error in a nested concurrent statement, after a diagnostic of the
\* enclosing statement and before a statement of the enclosing list.
C14_Witness ==
    /\ result = "Fatal"
    /\ diagnostics # <<>>
    /\ cpos < Len(cstatements)
    /\ cstatements[cpos].depth > 0
    /\ cstatements[Len(cstatements)].depth = 0

-----------------------------------------------------------------------------
(* Properties of FormalRegion *)

\* C15: a FormalRegion never holds two elements with the same designator: a
\* declaration whose designator the region already holds is not accepted by
\* add.
C15_DesignatorsDistinct ==
    \A i, j \in DOMAIN entities :
        i # j => entities[i].designator # entities[j].designator

\* The declarations handed to the region that are interface objects or
\* interface files, in the order they were handed over.
Interfaces ==
    SelectSeq(added, LAMBDA e : e.kind \in {"Object with mode", "InterfaceFile"})

FirstWith(d) ==
    LET at == {i \in DOMAIN Interfaces : Interfaces[i].designator = d}
    IN  IF at = {} THEN Diag("No declaration of", <<>>, d)
        ELSE Interfaces[CHOOSE i \in at : \A k \in at : i <= k]

\* C16: the elements of a region are the declarations added to it that are
\* interface objects or interface files, in the order of the calls; len is
\* their number, nth(i) the element after i others or None, lookup(d) the
\* first one with designator d or a "No declaration of" diagnostic; an add
\* of another declaration leaves the elements as they were.
C16_RegionIsInterfaceSubsequence ==
    /\ entities = Interfaces
    /\ answer.op = "len" => answer.result = Len(Interfaces)
    /\ answer.op = "nth" =>
          answer.result = IF answer.arg < Len(Interfaces)
                          THEN Interfaces[answer.arg + 1] ELSE "None"
    /\ answer.op = "lookup" => answer.result = FirstWith(answer.arg)

\* A lookup answered with the first of two elements of one designator, in a
\* region that was also handed a declaration that is no interface.
C16_Witness ==
    /\ flagged > 0
    /\ answer.op = "lookup"
    /\ \E i, j \in DOMAIN entities :
        /\ i < j
        /\ entities[i].designator = answer.arg
        /\ entities[j].designator = answer.arg
        /\ entities[i] # entities[j]
        /\ answer.result = entities[i]

-----------------------------------------------------------------------------
(* Properties of the scopes of concurrent statements *)

\* The concurrent statements whose analysis has completed.
CAnalysed(kind) ==
    {j \in 1..Len(cstatements) : j < cpos /\ cstatements[j].kind = kind}

\* The lookups made for statement j.
SeenAt(j) == {seen[i] : i \in {k \in DOMAIN seen : seen[k].at = j}}

\* Statement j lies in a generate body that carries the alternative label A1.
InLabelledBody(j) ==
    \E k \in Enclosing(cstatements, j) : cstatements[k].alternative_label = "A1"

\* The alternative label is found exactly from inside the body it labels.
BodyScopesFresh ==
    \A i \in DOMAIN seen :
        seen[i].name = "A1" => (seen[i].ent = "Label" <=> InLabelledBody(seen[i].at))

\* The expression of statement j was analysed.
ExpressionAnalysed(j) == \E e \in SeenAt(j) : e.name = cstatements[j].expr

\* C17: every branch of an if generate and every alternative of a case
\* generate is analysed in a nested scope of its own, so that its
\* alternative label is found neither from another branch nor from the
\* enclosing scope; the condition of an if generate and the expression of a
\* case generate are analysed, in the scope the statement stands in.
C17_GenerateScopes ==
    /\ BodyScopesFresh
    /\ \A j \in CAnalysed("if_generate") \cup CAnalysed("case_generate") :
        ExpressionAnalysed(j)

-----------------------------------------------------------------------------
(* Properties of the scope of a loop index *)

\* Statement j of the part p lies in the body of statement k.
InBodyOf(p, k, j) ==
    k < j /\ \A m \in (k + 1)..j : p[m].depth > p[k].depth

\* Statement j lies in the body of a for generate statement.
InForGenerateBody(j) ==
    \E k \in DOMAIN cstatements :
        cstatements[k].kind = "for_generate" /\ InBodyOf(cstatements, k, j)

\* Statement j lies in the body of a for loop.
InForLoopBody(j) ==
    \E k \in DOMAIN statements :
        /\ statements[k].kind = "loop"
        /\ statements[k].scheme = "for"
        /\ InBodyOf(statements, k, j)

\* What a lookup of the index gives where it is visible and where it is not.
IndexFound(visible) == IF visible THEN "LoopParameter" ELSE "none"

\* The sequential for loops and the for generate statements analysed without
\* a fatal error.
ForLoopsAnalysed ==
    {j \in Analysed("loop") : statements[j].scheme = "for"}

\* The exit statements that name the index as their loop label.
ExitsNamingIndex ==
    {j \in Analysed("exit") : statements[j].loop_label = LoopIndex}

\* C18: the range of a for generate statement and of a for loop is analysed
\* in the scope the statement stands in, where its own index is not
\* visible; the index is found from the statements of the body and from no
\* statement outside of it, a statement after the loop included; a while
\* loop and a plain loop add no index.
C18_IndexScope ==
    /\ \A j \in CAnalysed("for_generate") :
        \E e \in SeenAt(j) : e.name = "g"
    /\ \A i \in DOMAIN seen :
        seen[i].name = "g" => seen[i].ent = IndexFound(InForGenerateBody(seen[i].at))
    /\ \A j \in ForLoopsAnalysed :
        \E e \in SeenAt(j) : e.name = LoopIndex
    /\ \A i \in DOMAIN seen :
        seen[i].name = LoopIndex => seen[i].ent = IndexFound(InForLoopBody(seen[i].at))
    /\ \A j \in ExitsNamingIndex :
        IF InForLoopBody(j)
        THEN statements[j].reference = "LoopParameter"
        ELSE /\ statements[j].reference = NoRef
             /\ "No declaration of" \in DiagsAt(j)

\* A for loop whose range does not see the index, an exit in its body that
\* finds the index, and an exit after the loop that does not.
C18_Witness ==
    /\ pc = "done"
    /\ \E k \in ForLoopsAnalysed :
        /\ \E e \in SeenAt(k) : e.ent = "none"
        /\ \E j \in ExitsNamingIndex :
            InBodyOf(statements, k, j) /\ statements[j].reference = "LoopParameter"
        /\ \E j \in ExitsNamingIndex :
            /\ j > k
            /\ ~InForLoopBody(j)
            /\ statements[j].reference = NoRef

-----------------------------------------------------------------------------
(* Properties of the label pre-pass *)

\* The labels the statements of the part carry, at any depth.
LabelsOfPart == {statements[k].label : k \in DOMAIN statements} \ {NoLabel}

\* The names of the scope that are declared as labels.
DeclaredLabels == {n \in Names : scope[n] = "Label"}

\* The exit and next statements analysed so far that name a label carried
\* by a statement later in the part.
ForwardReferences ==
    {j \in NamesLabel : \E k \in (j + 1)..Len(statements) : statements[k].label = "L1"}

\* C19: once define_labels_for_sequential_part has run, the label of every
\* statement of the part, those nested at any depth in the bodies of if and
\* loop statements included, is declared as a Label, and an exit or next
\* that names a label carried by a later statement resolves to it; the main
\* pass declares nothing, so without the pre-pass no label is declared and
\* a label that is named is not found.
C19_ForwardLabels ==
    /\ [][pc = "labels" => DeclaredLabels' = LabelsOfPart]_vars
    /\ [][pc = "main" => scope' = scope]_vars
    /\ [](prepass /\ pc # "labels" =>
            /\ DeclaredLabels = LabelsOfPart
            /\ \A j \in ForwardReferences :
                /\ statements[j].reference = "Label"
                /\ "No declaration of" \notin DiagsAt(j))
    /\ [](~prepass =>
            /\ DeclaredLabels = {}
            /\ \A j \in NamesLabel :
                /\ statements[j].reference = NoRef
                /\ "No declaration of" \in DiagsAt(j))

\* An exit that resolves the label of a later statement which lies in the
\* body of an if or a loop.
C19_Witness ==
    /\ pc = "done"
    /\ prepass
    /\ \E j \in ForwardReferences :
        /\ statements[j].kind = "exit"
        /\ statements[j].reference = "Label"
        /\ \A k \in DOMAIN statements :
            statements[k].label = "L1" => k > j /\ statements[k].depth > 0

-----------------------------------------------------------------------------
(* Properties of the root of nested statements *)

\* The return statements analysed so far that lie in the body of an if or a
\* loop.
NestedReturns == {j \in Analysed("return") : statements[j].depth > 0}

\* Statement j got the diagnostics and the type check of a return judged by
\* the root.
JudgedBy(root, j) ==
    LET e == Return(root, statements[j].expr, j)
    IN  /\ DiagsAt(j) = {e.diags[i].kind : i \in DOMAIN e.diags}
        /\ \A c \in Range(checked) : c.at = j => c \in Range(e.checks)
        /\ Range(e.checks) \subseteq Range(checked)

\* C20: the root of the outermost analyze_sequential_part call never changes
\* and judges the return statements at every depth of nesting: a return in a
\* body of the statements of a process gets "Cannot return from a process".
C20_RootThroughNesting ==
    /\ [][sroot' = sroot]_vars
    /\ [](\A j \in NestedReturns :
            /\ JudgedBy(sroot, j)
            /\ sroot = Process => "Cannot return from a process" \in DiagsAt(j))

\* A return in a loop in an if of the statements of a process, reported.
C20_Witness ==
    /\ pc = "done"
    /\ sroot = Process
    /\ \E j \in NestedReturns :
        /\ statements[j].depth = 2
        /\ \E k, m \in Enclosing(statements, j) :
            /\ k < m
            /\ statements[k].kind = "if"
            /\ statements[m].kind = "loop"
        /\ "Cannot return from a process" \in DiagsAt(j)

-----------------------------------------------------------------------------
(* Properties of the fatal, the concluding and the frame behaviour of       *)
(* resolve_overloaded_with_target_type                                     *)

\* The call returned the fatal error of a candidate's speculative pass.
SpeculativeFatal == Done /\ result = "Fatal" /\ Classified("Fatal") # {}

\* C21: when the speculative pass of a candidate raises a fatal error, the
\* call returns that error with no name reference inside the actual
\* parameters bound and with the call-site reference not written.
C21_FatalLeavesNoBinding ==
    SpeculativeFatal =>
        /\ BoundActuals = {}
        /\ refWrites = 0
        /\ reference = refOnEntry

\* The call took the unique-NotOk branch for a call without parameters of a
\* candidate without formals.
NullaryUniqueNotOk ==
    /\ Count("Ok") = 0
    /\ Count("Unknown") = 0
    /\ Count("NotOk") = 1
    /\ \A i \in Classified("NotOk") : NullaryCall(i)

\* The diagnostics the call pushes itself.
OwnDiagnostics ==
    Reported("Ambiguous use") \cup Reported("Could not resolve") \cup Reported("does not match")

\* C22: a pass over the parameters with the real sink is made only when the
\* candidate loop has ended, and it ends the call; a call that returns made
\* one such pass, none in the nullary unique-NotOk case; no parameter
\* diagnostic is in the sink twice, and the diagnostic of the call itself
\* stands in the sink before every parameter diagnostic.
C22_OneConcludingPass ==
    /\ [][realPasses' # realPasses =>
            /\ pc = "loop"
            /\ idx > Len(overloaded)
            /\ pc' = "done"
            /\ Len(realPasses') = Len(realPasses) + 1]_vars
    /\ [](/\ Len(realPasses) <= 1
          /\ \A d, e \in Reported("param") : d # e => diagnostics[d] # diagnostics[e]
          /\ \A d \in OwnDiagnostics : \A e \in Reported("param") : d < e)
    /\ [](Returned => Len(realPasses) = IF NullaryUniqueNotOk THEN 0 ELSE 1)

\* An ambiguous call whose concluding pass reports a parameter after the
\* diagnostic of the ambiguity.
C22_Witness ==
    /\ Returned
    /\ Len(realPasses) = 1
    /\ Reported("Ambiguous use") # {}
    /\ Reported("param") # {}

\* The parameters as the call received them: no name reference bound.
OnEntry == ClearReferences(parameters)

\* The candidates, without their order, that pass the filter.
Survivors ==
    {c \in Range(overloaded) : ~Filtered(Decl(c), target_type, parameters)}

The(S) == CHOOSE c \in S : TRUE

Concluded(pass, ret) == IF pass.fatal THEN "Fatal" ELSE ret

Outcome(res, ref, listed) == [result |-> res, reference |-> ref, listed |-> listed]

\* What the call is to return, bind and list, told from the set of the
\* candidates, the target type and the parameters alone; every speculative
\* pass starts from the parameters as they were on entry.
OutcomeOfSet ==
    LET entry == OnEntry
        kept == Survivors
        pass == [c \in kept |-> Speculate(Decl(c), target_type, entry)]
        ok == {c \in kept : pass[c].check = "Ok"}
        notok == {c \in kept : pass[c].check = "NotOk"}
        unknown == {c \in kept : pass[c].check = "Unknown"}
    IN  IF \E c \in kept : pass[c].fatal
        THEN Outcome("Fatal", refOnEntry, {})
        ELSE IF Cardinality(ok) > 1
        THEN Outcome(Concluded(AnalyzeParameters(entry), "Unknown"), refOnEntry, ok)
        ELSE IF unknown # {}
        THEN Outcome(Concluded(AnalyzeParameters(entry), "Unknown"), refOnEntry, {})
        ELSE IF Cardinality(ok) = 1
        THEN Outcome(Concluded(pass[The(ok)], "Ok"), The(ok), {})
        ELSE IF Cardinality(notok) = 1
        THEN IF IsEmpty(entry) /\ Decl(The(notok)).formals = <<>>
             THEN Outcome("NotOk", The(notok),
                          IF target_type = NoType THEN notok ELSE {})
             ELSE Outcome(Concluded(AnalyzeParametersWithFormalRegion(
                                        Decl(The(notok)).formals, entry), "NotOk"),
                          The(notok), {})
        ELSE Outcome(Concluded(AnalyzeParameters(entry), "NotOk"), refOnEntry, notok)

\* C23: the TypeCheck the call returns, the declaration the call-site
\* reference is bound to and the set of the candidates its diagnostic lists
\* are what the set of the candidates, the target type and the parameters
\* determine; the order of the candidates plays no part, so every permutation
\* of the candidates has the same outcome.
C23_OrderIndependent ==
    Done => Outcome(result, reference, Listed) = OutcomeOfSet

\* Three candidates of which the last is the only match: it is the one bound.
C23_Witness ==
    /\ Returned
    /\ Len(overloaded) = 3
    /\ klass = <<"NotOk", "skipped", "Ok">>
    /\ result = "Ok"
    /\ reference = overloaded[3]

\* The call was concluded by the ambiguous, the Unknown or the unresolved
\* branch.
NoUniqueCandidate ==
    \/ Count("Ok") > 1
    \/ Count("Unknown") > 0
    \/ Count("Ok") = 0 /\ Count("NotOk") # 1

\* C24: the call-site reference is written only by the unique-Ok and the
\* unique-NotOk branch, once, to the single candidate classified so, a
\* candidate the filter kept; a call concluded by the ambiguous, the Unknown
\* or the unresolved branch, and a call ended by a fatal error of a
\* speculative pass, leaves the slot as it was on entry, neither set nor
\* cleared: a slot bound on entry is still bound to the same declaration.
C24_ReferenceFrame ==
    /\ [][reference' # reference \/ refWrites' # refWrites =>
            /\ LoopDone
            /\ ~uncertain
            /\ Len(good) <= 1
            /\ Len(good) = 1 \/ Len(bad) = 1
            /\ refWrites' = refWrites + 1
            /\ reference' = IF Len(good) = 1 THEN good[1] ELSE bad[1]
            /\ \E i \in DOMAIN overloaded :
                overloaded[i] = reference' /\ ~Discarded(i)]_vars
    /\ [](refWrites <= 1)
    /\ []((Finished /\ NoUniqueCandidate) \/ SpeculativeFatal =>
            /\ refWrites = 0
            /\ reference = refOnEntry
            /\ refOnEntry # NoRef => reference # NoRef)
    /\ [](pc = "loop" => reference = refOnEntry)

\* An ambiguous call returned with the slot still bound to what it was bound
\* to on entry.
C24_Witness ==
    /\ Returned
    /\ refOnEntry = StaleRef
    /\ Reported("Ambiguous use") # {}
    /\ reference = StaleRef

====
